---- MODULE Spec2Model ----
(***************************************************************************)
(* Model of WktParser (src/formats/wkt/WktParser.js): the constructor and  *)
(* WktParser.prototype.load.  load parses the text into WKT objects, asks  *)
(* every object for its shapes, lets the configuration callback overwrite  *)
(* four fields of every shape, hands the list of shapes to the layer,      *)
(* calls the completion callback and returns.                              *)
(*                                                                         *)
(* load is synchronous, but it calls out to code it does not own (the      *)
(* tokens' objects(), each object's shapes(), the two callbacks and the    *)
(* layer).  Each call out is one step of the model, and every call out is  *)
(* appended to `trace`, the sequence of calls the running load has made.   *)
(***************************************************************************)
EXTENDS Integers, Sequences, FiniteSets, TLC

\* ---------------------------------------------------------------- bounds
MaxStatements == 2      \* WKT statements in the text given to the constructor
MaxLoads == 2           \* calls of load on the one parser

\* ---------------------------------------------------------------- inputs
\* The WKT statements a text is made of (spec section 8).
PointStatement == "POINT (19 23)"
EmptyPointStatement == "POINT EMPTY"
CollectionStatement == "GEOMETRYCOLLECTION (POINT (1 2), LINESTRING (0 0, 1 1))"
MalformedStatement == "POINT (1 2"

Statements ==
    {PointStatement, EmptyPointStatement, CollectionStatement, MalformedStatement}

\* A text is a sequence of statements separated by whitespace.
Texts == UNION {[1..n -> Statements] : n \in 0..MaxStatements}

Layers == {"layerA", "layerB"}

\* A callback argument of load is either left out (null) or a function.
Callbacks == {"omitted", "supplied"}

FieldNames == {"attributes", "highlightAttributes", "pickDelegate", "userProperties"}

\* ---------------------------------------------------------------- objects
\* An object reference.  A WKT object (a parsed root) has part 0; the k-th
\* shape its shapes() returns has part k; a shape made by the configuration
\* callback has origin "callback".  `call` is the load that created it, so
\* that every load creates new objects.
Obj(c, r, p, o) == [call |-> c, root |-> r, part |-> p, origin |-> o]

NoObj == Obj(0, 0, 0, "none")

WktObject(c, r) == Obj(c, r, 0, "objects")

Shape(c, r, p) == Obj(c, r, p, "shapes")

\* The shape a configuration callback would offer in place of shape s.
CustomShape(s) == [s EXCEPT !.origin = "callback"]

\* WktTokens(text).objects(): the parsed roots, one per statement, or a
\* syntax error if any statement is malformed (spec sections 4.2 and 7).
WktTokensObjects(text, c) ==
    IF \E n \in 1..Len(text) : text[n] = MalformedStatement
    THEN [threw |-> TRUE, roots |-> <<>>]
    ELSE [threw |-> FALSE, roots |-> [n \in 1..Len(text) |-> WktObject(c, n)]]

\* The number of shapes a statement materializes into (spec section 4.4).
ShapeCount(statement) ==
    CASE statement = PointStatement -> 1
      [] statement = EmptyPointStatement -> 0
      [] statement = CollectionStatement -> 2
      [] OTHER -> 0

\* WktObject.shapes(): the shapes of one parsed root, in order.
ObjectShapes(text, object) ==
    [p \in 1..ShapeCount(text[object.root]) |-> Shape(object.call, object.root, p)]

\* The four overwritable fields of a shape as shapes() returns it.
DefaultFields(shape) ==
    [attributes |-> "defaultAttributes",
     highlightAttributes |-> "null",
     pickDelegate |-> "null",
     userProperties |-> "defaultUserProperties"]

\* ------------------------------------------------- configuration callback
\* What a call of the configuration callback can give back: nothing, or a
\* record.  A field of the record is left out ("absent"), present with a
\* falsy value ("null"), or present with a value.  kind "shape" is a
\* callback that returns a shape of its own, meant to be used in place of
\* the current one; `ref` is that shape.
Configuration(k, a, h, p, u, r) ==
    [kind |-> k, attributes |-> a, highlightAttributes |-> h,
     pickDelegate |-> p, userProperties |-> u, ref |-> r]

Undefined == Configuration("undefined", "absent", "absent", "absent", "absent", NoObj)

Configurations(shape) ==
    { Undefined,
      Configuration("record", "null", "cfgHighlightAttributes", "cfgPickDelegate",
                    "absent", NoObj),
      Configuration("shape", "customAttributes", "null", "null",
                    "customUserProperties", CustomShape(shape)) }

\* JavaScript truthiness of a field read: a missing field reads undefined.
Truthy(v) == v \notin {"absent", "null"}

\* ------------------------------------------------------------------ state
VARIABLES
    textRepresentation,  \* this.textRepresentation
    objects,            \* this.objects
    textArgument,        \* the argument the constructor was called with
    renderables,         \* per layer, the renderables it holds, in order
    calls,               \* number of load calls started
    pc,                  \* where the running load is; "idle" between calls
    completionCallback,  \* parserCompletionCallback of the running load
    configurationCallback, \* shapeConfigurationCallback of the running load
    layer,               \* layer of the running load
    loadObjects,         \* local `objects` of load
    shapes,              \* local `shapes` of load
    i,                   \* position of objects.forEach
    current,             \* the array object.shapes() returned
    j,                   \* position of the inner forEach
    fields,              \* the four fields of every shape of the running load
    trace,               \* the calls out the running load has made
    entry,               \* `renderables` when the running load was called
    result               \* how the last load ended and what it returned

vars == <<textRepresentation, objects, textArgument, renderables, calls, pc,
          completionCallback, configurationCallback, layer, loadObjects, shapes,
          i, current, j, fields, trace, entry, result>>

parserVars == <<textRepresentation, objects, textArgument>>

\* An entry of trace.
Event(op, object, shape, cfg, list, field) ==
    [op |-> op, object |-> object, shape |-> shape, cfg |-> cfg,
     list |-> list, field |-> field]

NoFields == [s \in {} |-> DefaultFields(s)]

Result(status, value) == [status |-> status, value |-> value]

\* new WktParser(textRepresentation)
Init ==
    /\ textRepresentation \in Texts
    /\ textArgument = textRepresentation
    /\ objects = [null |-> TRUE, list |-> <<>>]
    /\ renderables = [l \in Layers |-> <<>>]
    /\ calls = 0
    /\ pc = "idle"
    /\ completionCallback = "omitted"
    /\ configurationCallback = "omitted"
    /\ layer = "layerA"
    /\ loadObjects = <<>>
    /\ shapes = <<>>
    /\ i = 1
    /\ current = <<>>
    /\ j = 1
    /\ fields = NoFields
    /\ trace = <<>>
    /\ entry = renderables
    /\ result = Result("none", <<>>)

\* ------------------------------------------------------------------- load
\* A load that catches the parse error and goes on with no objects.
ParseSwallowed(text, c) ==
    IF WktTokensObjects(text, c).threw
    THEN [threw |-> FALSE, roots |-> <<>>]
    ELSE WktTokensObjects(text, c)

\* Line 68: what `new WktTokens(this.textRepresentation).objects()` gives
\* load; an error it raises is not caught anywhere in load.
Parse(text, c) == WktTokensObjects(text, c)

\* A load that keeps the parsed objects in this.objects.
ObjectsFieldCached(old, parsed) == parsed

\* this.objects after line 68: load holds the parsed objects in a local
\* variable and assigns no field of the parser.
ObjectsField(old, parsed) == old

\* Lines 70-71: a callback left out is replaced by function(){}, which
\* returns undefined; one supplied returns what it chooses.
Returns(callback, shape) ==
    IF callback = "omitted" THEN {Undefined} ELSE Configurations(shape)

\* A load that passes the shape, as the doc comment has it.
CallbackArgumentShape(object, shape) == shape

\* Line 76: the argument of the configuration callback.
CallbackArgument(object, shape) == object

FieldOrder == <<"attributes", "highlightAttributes", "pickDelegate", "userProperties">>

\* Lines 77, 80, 83, 86: the fields whose `if` is taken, in order.
Overwritten(configuration) ==
    SelectSeq(FieldOrder,
              LAMBDA n : configuration.kind # "undefined" /\ Truthy(configuration[n]))

\* Line 81 with a copy-and-paste slip: shape.attributes is assigned there.
ApplyConfigurationSlip(f, configuration) ==
    [n \in FieldNames |->
        CASE n = "attributes" /\ Truthy(configuration.highlightAttributes)
               -> configuration.highlightAttributes
          [] n = "attributes" /\ Truthy(configuration.attributes)
               -> configuration.attributes
          [] n \in {"pickDelegate", "userProperties"} /\ Truthy(configuration[n])
               -> configuration[n]
          [] OTHER -> f[n]]

\* Lines 78, 81, 84, 87: the shape's four fields after the assignments.
ApplyConfiguration(f, configuration) ==
    [n \in FieldNames |->
        IF \E k \in 1..Len(Overwritten(configuration)) : Overwritten(configuration)[k] = n
        THEN configuration[n]
        ELSE f[n]]

\* Line 89: the shape that is pushed after the callback returned.
Pushed(shape, configuration) == shape

\* unshift in place of push.
PushFront(list, shape) == <<shape>> \o list

\* Line 89: shapes.push(shape)
Push(list, shape) == Append(list, shape)

\* shapes() called once to test for shapes and once more to walk them.
ShapesCallsTwice(object) ==
    <<Event("shapes", object, NoObj, Undefined, <<>>, ""),
      Event("shapes", object, NoObj, Undefined, <<>>, "")>>

\* Line 75: the calls of shapes() made for one object.
ShapesCalls(object) == <<Event("shapes", object, NoObj, Undefined, <<>>, "")>>

\* The completion callback given the parsed objects.
CompletionArgumentObjects(list, parsed) == parsed

\* Line 95: the argument of the completion callback.
CompletionArgument(list, parsed) == list

\* Line 97: the value load returns.
ReturnValue(list, parsed) == parsed

\* Line 93, RenderableLayer.addRenderables: the layer's renderables after.
AddedTo(held, list) == held \o list

\* The `write` events of one shape, one per field overwritten.
Writes(shape, configuration) ==
    [k \in 1..Len(Overwritten(configuration)) |->
        Event("write", NoObj, shape, Undefined, <<>>, Overwritten(configuration)[k])]

\* Lines 67-71: load is called; the text is parsed.  A parse error ends the
\* call at once with the error.
Load(completion, configure, l) ==
    /\ pc = "idle"
    /\ calls < MaxLoads
    /\ calls' = calls + 1
    /\ completionCallback' = completion
    /\ configurationCallback' = configure
    /\ layer' = l
    /\ entry' = renderables
    /\ trace' = <<Event("objects", NoObj, NoObj, Undefined, <<>>, "")>>
    /\ fields' = NoFields
    /\ shapes' = <<>>
    /\ i' = 1
    /\ j' = 1
    /\ current' = <<>>
    /\ LET parsed == Parse(textRepresentation, calls + 1) IN
        /\ objects' = ObjectsField(objects, [null |-> FALSE, list |-> parsed.roots])
        /\ IF parsed.threw
           THEN /\ loadObjects' = <<>>
                /\ result' = Result("threw", <<>>)
                /\ pc' = "idle"
           ELSE /\ loadObjects' = parsed.roots
                /\ result' = Result("running", <<>>)
                /\ pc' = "forEachObject"
    /\ UNCHANGED <<textRepresentation, textArgument, renderables>>

\* Lines 74-75: the outer forEach takes the next object and calls its
\* shapes(); an object with no shapes is done at once.
NextObject ==
    /\ pc = "forEachObject"
    /\ i <= Len(loadObjects)
    /\ LET made == ObjectShapes(textRepresentation, loadObjects[i]) IN
        /\ current' = made
        /\ j' = 1
        /\ fields' = [s \in DOMAIN fields \cup {made[k] : k \in 1..Len(made)} |->
                        IF s \in DOMAIN fields THEN fields[s] ELSE DefaultFields(s)]
        /\ trace' = trace \o ShapesCalls(loadObjects[i])
        /\ IF Len(made) = 0
           THEN /\ i' = i + 1
                /\ pc' = "forEachObject"
           ELSE /\ i' = i
                /\ pc' = "forEachShape"
    /\ UNCHANGED <<parserVars, renderables, calls, completionCallback,
                   configurationCallback, layer, loadObjects, shapes, entry, result>>

\* Lines 76-89: the configuration callback is called and returns; the
\* shape's fields are overwritten and the shape is pushed.
ConfigureShape ==
    /\ pc = "forEachShape"
    /\ j <= Len(current)
    /\ \E configuration \in Returns(configurationCallback, current[j]) :
        LET shape == current[j]
            pushed == Pushed(shape, configuration)
        IN
        /\ fields' = [fields EXCEPT ![shape] = ApplyConfiguration(fields[shape], configuration)]
        /\ shapes' = Push(shapes, pushed)
        /\ trace' = trace
                \o <<Event("configure", CallbackArgument(loadObjects[i], shape),
                           shape, configuration, <<>>, "")>>
                \o Writes(shape, configuration)
                \o <<Event("push", NoObj, pushed, Undefined, <<>>, "")>>
    /\ IF j = Len(current)
       THEN /\ i' = i + 1
            /\ j' = 1
            /\ pc' = "forEachObject"
       ELSE /\ i' = i
            /\ j' = j + 1
            /\ pc' = "forEachShape"
    /\ UNCHANGED <<parserVars, renderables, calls, completionCallback,
                   configurationCallback, layer, loadObjects, current, entry, result>>

\* Line 76: a supplied configuration callback raises an error; load has no
\* handler, so the call ends with it.
ConfigureThrows ==
    /\ pc = "forEachShape"
    /\ j <= Len(current)
    /\ configurationCallback = "supplied"
    /\ trace' = trace \o <<Event("configure", CallbackArgument(loadObjects[i], current[j]),
                                 current[j], Undefined, <<>>, "")>>
    /\ result' = Result("threw", <<>>)
    /\ pc' = "idle"
    /\ UNCHANGED <<parserVars, renderables, calls, completionCallback,
                   configurationCallback, layer, loadObjects, shapes, i, current, j,
                   fields, entry>>

\* Lines 93 and 95 the other way round: the completion callback is called
\* first, then the shapes are added to the layer, then load returns.
AddRenderablesAfterCompletion ==
    /\ pc = "forEachObject"
    /\ i > Len(loadObjects)
    /\ renderables' = [renderables EXCEPT ![layer] = AddedTo(renderables[layer], shapes)]
    /\ trace' = trace
            \o (IF completionCallback = "supplied"
                THEN <<Event("completion", NoObj, NoObj, Undefined, shapes, "")>>
                ELSE <<>>)
            \o <<Event("addRenderables", NoObj, NoObj, Undefined, shapes, "")>>
    /\ result' = Result("returned", loadObjects)
    /\ pc' = "idle"
    /\ UNCHANGED <<parserVars, calls, completionCallback, configurationCallback, layer,
                   loadObjects, shapes, i, current, j, fields, entry>>

\* Line 93: layer.addRenderables(shapes), after the outer forEach ended.
AddRenderables ==
    /\ pc = "forEachObject"
    /\ i > Len(loadObjects)
    /\ renderables' = [renderables EXCEPT ![layer] = AddedTo(renderables[layer], shapes)]
    /\ trace' = trace \o <<Event("addRenderables", NoObj, NoObj, Undefined, shapes, "")>>
    /\ pc' = "completion"
    /\ UNCHANGED <<parserVars, calls, completionCallback, configurationCallback, layer,
                   loadObjects, shapes, i, current, j, fields, entry, result>>

\* Lines 95-97: the completion callback is called and load returns.
Complete ==
    /\ pc = "completion"
    /\ trace' = IF completionCallback = "supplied"
                THEN trace \o <<Event("completion", NoObj, NoObj, Undefined,
                                      CompletionArgument(shapes, loadObjects), "")>>
                ELSE trace
    /\ result' = Result("returned", ReturnValue(shapes, loadObjects))
    /\ pc' = "idle"
    /\ UNCHANGED <<parserVars, renderables, calls, completionCallback,
                   configurationCallback, layer, loadObjects, shapes, i, current, j,
                   fields, entry>>

\* Line 95: a supplied completion callback raises an error.
CompleteThrows ==
    /\ pc = "completion"
    /\ completionCallback = "supplied"
    /\ trace' = trace \o <<Event("completion", NoObj, NoObj, Undefined,
                                 CompletionArgument(shapes, loadObjects), "")>>
    /\ result' = Result("threw", <<>>)
    /\ pc' = "idle"
    /\ UNCHANGED <<parserVars, renderables, calls, completionCallback,
                   configurationCallback, layer, loadObjects, shapes, i, current, j,
                   fields, entry>>

Next ==
    \/ \E completion \in Callbacks, configure \in Callbacks, l \in Layers :
          Load(completion, configure, l)
    \/ NextObject
    \/ ConfigureShape
    \/ ConfigureThrows
    \/ AddRenderables
    \/ Complete
    \/ CompleteThrows

Spec == Init /\ [][Next]_vars

\* ---------------------------------------------------------------- helpers
\* The positions of trace that hold a call of the given kind.
Ops(op) == {k \in 1..Len(trace) : trace[k].op = op}

Range(list) == {list[k] : k \in 1..Len(list)}

RECURSIVE Flatten(_)
Flatten(lists) ==
    IF Len(lists) = 0 THEN <<>> ELSE Head(lists) \o Flatten(Tail(lists))

\* The shapes of every root of the running load, root after root.
AllShapes ==
    Flatten([n \in 1..Len(loadObjects) |-> ObjectShapes(textRepresentation, loadObjects[n])])

\* The parsed root a shape was materialized from.
RootOf(shape) == WktObject(shape.call, shape.root)

\* The last load returned normally.
Returned == pc = "idle" /\ result.status = "returned"

\* What the configuration callback returned for a pushed shape.
ConfigurationOf(configured, shape) ==
    trace[CHOOSE k \in configured : trace[k].shape = shape].cfg

\* ----------------------------------------------------------------- claims

\* C1: a load that returns normally with a completion callback supplied has
\* called it exactly once, as its last call out, after every shape of every
\* root was pushed, with the full shape list: the shapes of every root and
\* nothing else, the list that was handed to layer.addRenderables.
CompletionOnceWithFullList ==
    /\ Cardinality(Ops("completion")) <= 1
    /\ (Returned /\ completionCallback = "supplied") =>
          /\ Cardinality(Ops("completion")) = 1
          /\ Cardinality(Ops("addRenderables")) = 1
          /\ \A k \in Ops("completion") :
                /\ k = Len(trace)
                /\ \A m \in Ops("push") : m < k
                /\ \A s \in Range(AllShapes) : \E m \in Ops("push") : trace[m].shape = s
                /\ trace[k].list = AllShapes
                /\ \A a \in Ops("addRenderables") : trace[a].list = trace[k].list

CompletionOnceWitness ==
    /\ Returned
    /\ completionCallback = "supplied"
    /\ Ops("completion") # {}
    /\ Len(loadObjects) = 2
    /\ Len(shapes) >= 3

ReturnedShapeUsed ==
    \A k \in Ops("configure") :
        trace[k].cfg.kind = "shape" =>
            \A a \in Ops("addRenderables") \cup Ops("completion") :
                /\ trace[k].cfg.ref \in Range(trace[a].list)
                /\ trace[k].shape \notin Range(trace[a].list)

\* C5 as stated: load returns the list of shapes it added to the layer and
\* passed to the completion callback.
ReturnsShapeList ==
    Returned =>
        /\ result.value = shapes
        /\ \A a \in Ops("addRenderables") \cup Ops("completion") :
              result.value = trace[a].list

\* C6: when the completion callback is called, layer.addRenderables has
\* already been called with every collected shape and the layer holds them,
\* and every call of the configuration callback, every overwrite of a shape
\* field and every push has already happened.
CompletionAfterLayerAdd ==
    \A k \in Ops("completion") :
        /\ \E a \in Ops("addRenderables") :
              /\ a < k
              /\ trace[a].list = shapes
              /\ \A m \in Ops("push") : m < a /\ trace[m].shape \in Range(trace[a].list)
        /\ shapes = AllShapes
        /\ renderables[layer] = entry[layer] \o shapes
        /\ \A m \in Ops("configure") \cup Ops("write") \cup Ops("push") : m < k

CompletionAfterLayerAddWitness ==
    /\ Ops("completion") # {}
    /\ configurationCallback = "supplied"
    /\ Ops("write") # {}
    /\ Len(shapes) >= 2

\* C7: when parsing the text fails, load ends with the error at once: no
\* call of the configuration callback, of layer.addRenderables or of the
\* completion callback is made, and every layer is as it was at the call.
ParseFailureSurfaces ==
    (calls > 0 /\ WktTokensObjects(textRepresentation, calls).threw) =>
        /\ pc = "idle"
        /\ result.status = "threw"
        /\ Ops("configure") \cup Ops("addRenderables") \cup Ops("completion") = {}
        /\ Ops("shapes") = {}
        /\ shapes = <<>>
        /\ renderables = entry

ParseFailureWitness ==
    /\ calls > 0
    /\ WktTokensObjects(textRepresentation, calls).threw
    /\ result.status = "threw"
    /\ Len(textRepresentation) = 2
    /\ textRepresentation[1] # MalformedStatement

\* C8: shapes() of a parsed root is called at most once, exactly once in a
\* load that returns; every overwrite and push of a shape comes after the
\* shapes() call of its root, and addRenderables after all of them.
ShapesCalledOnceFirst ==
    LET called == Ops("shapes") IN
    /\ \A n \in 1..Len(loadObjects) :
          LET made == {k \in called : trace[k].object = loadObjects[n]} IN
          /\ Cardinality(made) <= 1
          /\ (Returned \/ n < i) => Cardinality(made) = 1
    /\ \A k \in called : trace[k].object \in Range(loadObjects)
    /\ \A m \in 1..Len(trace) :
          trace[m].op \in {"configure", "write", "push"} =>
              \E k \in called : k < m /\ trace[k].object = RootOf(trace[m].shape)
    /\ \A a \in Ops("addRenderables") : \A k \in called : k < a

ShapesCalledOnceWitness ==
    /\ Returned
    /\ Len(loadObjects) = 2
    /\ Cardinality(Ops("shapes")) = 2
    /\ Ops("write") # {}

\* C9: the list handed to layer.addRenderables is the concatenation, in
\* root order, of the shapes of each parsed root in the root's own order; it
\* is handed over at most once, and exactly once when load returns, also
\* when it is empty.
AddedListIsConcatenation ==
    /\ Cardinality(Ops("addRenderables")) <= 1
    /\ \A a \in Ops("addRenderables") :
          /\ trace[a].list = AllShapes
          /\ Len(trace[a].list) = Cardinality(Range(trace[a].list))
    /\ Returned => Cardinality(Ops("addRenderables")) = 1

AddedListWitness ==
    /\ Returned
    /\ \E a \in Ops("addRenderables") : Len(trace[a].list) = 2
    /\ \E n \in 1..Len(loadObjects) :
          Len(ObjectShapes(textRepresentation, loadObjects[n])) = 0

\* C10: load never changes the parser: objects stays null and
\* textRepresentation stays the constructor's argument; so every load parses
\* the same text again and appends the full list of new shapes to its layer,
\* after what the layer held, leaving the other layers alone.
ParserStateUntouched ==
    /\ objects.null
    /\ objects.list = <<>>
    /\ textRepresentation = textArgument
    /\ Ops("addRenderables") # {} =>
          /\ renderables[layer] = entry[layer] \o AllShapes
          /\ Range(AllShapes) \cap Range(entry[layer]) = {}
          /\ \A l \in Layers \ {layer} : renderables[l] = entry[l]
          /\ Len(loadObjects) = Len(textArgument)

ParserStateWitness ==
    /\ Returned
    /\ calls = 2
    /\ Len(AllShapes) > 0
    /\ Len(renderables[layer]) = 2 * Len(AllShapes)

====
